---- MODULE Spec2Model ----
(***************************************************************************)
(* Model of the camera-aiming controller:                                  *)
(*   - the gimbal wire codec and command session of scripts/rpi/test.py,   *)
(*   - the virtual PTZ pipeline of source/vision/ptz.py,                   *)
(*   - the frame queue of the PC node, scripts/pc/main.py.                 *)
(* Bytes are naturals 0..255, byte strings are sequences of bytes.         *)
(* Angles are fixed-point integers in hundredths of a degree, zoom factors *)
(* are fixed-point integers in hundredths.                                 *)
(***************************************************************************)
EXTENDS Integers, Sequences, FiniteSets, TLC

VARIABLES
    \* codec under test: build_packet / parse_packet applied to drawn inputs
    codec_pc,       \* "input", "built", "decoded"
    codec_args,     \* [cmd_id, data, seq, need_ack] handed to build_packet
    codec_raw,      \* the byte buffer handed to parse_packet
    codec_flip,     \* index of the bit flipped in codec_raw, -1 when intact
    codec_out       \* what parse_packet returned

codec_vars == << codec_pc, codec_args, codec_raw, codec_flip, codec_out >>

VARIABLES
    \* command session: main() of scripts/rpi/test.py and the requests it calls
    pc,             \* "ask", "before", "set", "after", "report", "closed", "raised"
    seq,            \* main's 16-bit sequence counter
    yaw, pitch,     \* the angles typed at the prompt
    t,              \* ticks since t0 at the last test of the polling loop
    pkt,            \* the last datagram handed to sendto
    nsent,          \* number of datagrams sent in the session
    raw,            \* the last datagram recvfrom returned to the running request
    before,         \* result of the first request_attitude
    set_ret,        \* result of set_angles_with_ack
    after,          \* result of the second request_attitude
    answered        \* per request of this round, the datagram it returned on

chan_vars == << pc, seq, yaw, pitch, t, pkt, nsent, raw, before, set_ret, after,
                answered >>

VARIABLES
    \* PTZPipeline of source/vision/ptz.py: fields set by __init__
    zoom_min, zoom_max, zoom_step,  \* self.zoom_min .. self.zoom_step, hundredths
    joystick,       \* TRUE when self.joystick is not None
    enabled,        \* self.joystick.enabled: the Sense HAT is there
    zoom,           \* self.zoom, hundredths
    force_wide,     \* self.force_wide
    active_target_id, \* self.active_target_id, None or Some(identity)
    pipeline,       \* self.streamer.pipeline, None until start_stream
    starts,         \* how many times run() has called start_stream
    \* what the last iteration of the loop of run() did (None: not done)
    entry,          \* zoom, force_wide and active_target_id when it began
    frame,          \* what camera.read() returned, None or Some([w, h])
    targets,        \* tracker.result_to_target_list(result)
    updates,        \* what joystick.poll() returned, None when there is no joystick
    active_target,  \* what _select_active_target returned
    output,         \* what _crop_and_zoom returned
    pushed          \* the frame handed to streamer.push_frame

ptz_vars == << zoom_min, zoom_max, zoom_step, joystick, enabled, zoom,
               force_wide,
               active_target_id, pipeline, starts, entry, frame, targets,
               updates,
               active_target, output, pushed >>

VARIABLES
    \* PC node of scripts/pc/main.py: the receiver's thread calls
    \* on_frame_received, the main thread runs the display loop of main()
    frame_queue,    \* queue.Queue(maxsize=10): the frames waiting, oldest first
    receiving,      \* start_receiving has been called and stop_receiving not
    arrived,        \* how many frames the receiver has handed to the callback
    recv_pc,        \* the callback: "idle", "put" (full() was false), "blocked"
    recv_frame,     \* the frame the callback holds, frames are numbered from 1
    seen,           \* the queue's size when the callback last called full()
    dropped,        \* the frames the callback returned without queueing
    enqueued,       \* the frames put on the queue, in the order of the puts
    main_pc,        \* main(): "loop", "get" (empty() was false), "show",
                    \* "blocked", "quitting", "done"
    main_frame,     \* the frame main() holds
    displayed       \* the frames handed to cv2.imshow, in order

queue_vars == << frame_queue, receiving, arrived, recv_pc, recv_frame, seen,
                 dropped, enqueued, main_pc, main_frame, displayed >>

vars == << codec_vars, chan_vars, ptz_vars, queue_vars >>

(***************************************************************************)
(* Bit and byte helpers (Python int operators and struct.pack/unpack).     *)
(***************************************************************************)

Min(a, b) == IF a <= b THEN a ELSE b
Max(a, b) == IF a >= b THEN a ELSE b

RECURSIVE Pow2(_)
Pow2(n) == IF n = 0 THEN 1 ELSE 2 * Pow2(n - 1)

\* v ^ w for a single bit w = 2^k of a 16-bit v
Toggle(v, w) == [x \in 0..65535 |-> IF (x \div w) % 2 = 1 THEN x - w ELSE x + w][v]

\* a ^ b for bytes a, b: the bits set in b are toggled in a
XorBit(a, b, w) == IF (b \div w) % 2 = 1 THEN Toggle(a, w) ELSE a
XorByte(a, b) ==
    XorBit(XorBit(XorBit(XorBit(XorBit(XorBit(XorBit(XorBit(a, b, 1), b, 2), b, 4), b, 8),
                                b, 16), b, 32), b, 64), b, 128)

\* bit k (0 = least significant) of n
Bit(n, k) == (n \div Pow2(k)) % 2

\* struct.pack("<H", v): two bytes, least significant first
PackU16(v) == << v % 256, (v \div 256) % 256 >>

\* struct.unpack("<H", b)[0]
UnpackU16(b) == b[1] + 256 * b[2]

\* struct.pack("<h", v): two's complement, least significant byte first
PackS16(v) == PackU16(IF v < 0 THEN v + 65536 ELSE v)

\* struct.unpack("<h", b)[0]
UnpackS16(b) ==
    LET u == UnpackU16(b) IN IF u >= 32768 THEN u - 65536 ELSE u

\* Python slice s[a:b] with 0-based bounds 0 <= a, clipped to the length of s
Slice(s, a, b) ==
    LET hi == Min(b, Len(s)) IN
    IF a >= hi THEN << >> ELSE SubSeq(s, a + 1, hi)

(***************************************************************************)
(* Protocol codec: scripts/rpi/test.py                                     *)
(***************************************************************************)

STX == << 85, 102 >>

\* v ^ 0x1021 (0x1021 = 2^12 + 2^5 + 2^0)
XorPoly(v) == Toggle(Toggle(Toggle(v, 1), 32), 4096)

\* one pass of the inner loop of crc16_xmodem on a 16-bit register
CrcStep(crc) ==
    [reg \in 0..65535 |-> IF reg >= 32768
                            THEN XorPoly((reg * 2) % 65536)
                            ELSE (reg * 2) % 65536][crc]

\* the inner loop of crc16_xmodem: n shift/xor steps
RECURSIVE CrcShift(_, _)
CrcShift(crc, n) == IF n = 0 THEN crc ELSE CrcShift(CrcStep(crc), n - 1)

\* crc ^= (b << 8) & 0xFFFF: the byte goes into the high half of the register
XorHigh(crc, b) ==
    [reg \in 0..65535 |-> 256 * XorByte(reg \div 256, b) + (reg % 256)][crc]

\* the outer loop of crc16_xmodem over data[i..]
RECURSIVE CrcBytes(_, _, _)
CrcBytes(crc, data, i) ==
    IF i > Len(data) THEN crc
    ELSE \* the register is a 16-bit value before the next byte is taken
         [next \in 0..65535 |-> CrcBytes(next, data, i + 1)]
             [CrcShift(XorHigh(crc, data[i]), 8)]

crc16_xmodem(data, init) == CrcBytes(init % 65536, data, 1) % 65536

\* build_packet with the sequence number packed most significant byte first
build_packet_seq_big_endian(cmd_id, data, s, need_ack) ==
    LET ctrl   == IF need_ack THEN 1 ELSE 0
        header == STX \o << ctrl >> \o PackU16(Len(data))
                      \o << (s \div 256) % 256, s % 256 >> \o << cmd_id >>
        body   == header \o data
    IN  body \o PackU16(crc16_xmodem(body, 0))

build_packet(cmd_id, data, s, need_ack) ==
    LET ctrl   == IF need_ack THEN 1 ELSE 0
        header == STX \o << ctrl >> \o PackU16(Len(data)) \o PackU16(s) \o << cmd_id >>
        body   == header \o data
        crc    == crc16_xmodem(body, 0)
    IN  body \o PackU16(crc)

\* the invalid result of parse_packet
None == [ok |-> FALSE]

\* parse_packet without the comparison of the received and the computed CRC
parse_packet_no_crc_check(buf) ==
    IF Len(buf) < 10 \/ Slice(buf, 0, 2) # STX THEN None
    ELSE [ok     |-> TRUE,
          ctrl   |-> buf[3],
          seq    |-> UnpackU16(Slice(buf, 5, 7)),
          cmd_id |-> buf[8],
          data   |-> Slice(buf, 8, 8 + UnpackU16(Slice(buf, 3, 5)))]

\* parse_packet taking everything between the header and the checksum as the
\* payload, whatever length the frame declares
parse_packet_payload_to_crc(buf) ==
    IF Len(buf) < 10 \/ Slice(buf, 0, 2) # STX THEN None
    ELSE LET recv_crc == UnpackU16(Slice(buf, Len(buf) - 2, Len(buf)))
             calc_crc == crc16_xmodem(Slice(buf, 0, Len(buf) - 2), 0)
         IN  IF recv_crc # calc_crc THEN None
             ELSE [ok     |-> TRUE,
                   ctrl   |-> buf[3],
                   seq    |-> UnpackU16(Slice(buf, 5, 7)),
                   cmd_id |-> buf[8],
                   data   |-> Slice(buf, 8, Len(buf) - 2)]

parse_packet(buf) ==
    IF Len(buf) < 10 \/ Slice(buf, 0, 2) # STX THEN None
    ELSE LET recv_crc == UnpackU16(Slice(buf, Len(buf) - 2, Len(buf)))
             calc_crc == crc16_xmodem(Slice(buf, 0, Len(buf) - 2), 0)
         IN  IF recv_crc # calc_crc THEN None
             ELSE LET data_len == UnpackU16(Slice(buf, 3, 5))
                  IN  [ok     |-> TRUE,
                       ctrl   |-> buf[3],
                       seq    |-> UnpackU16(Slice(buf, 5, 7)),
                       cmd_id |-> buf[8],
                       data   |-> Slice(buf, 8, 8 + data_len)]

(***************************************************************************)
(* Codec harness: inputs are drawn, encoded, optionally corrupted in one   *)
(* bit, and decoded.                                                       *)
(***************************************************************************)

MaxPayload == 2

PayloadBytes == {0, 102, 255}

RECURSIVE BytesUpTo(_)
BytesUpTo(n) ==
    IF n = 0 THEN { << >> }
    ELSE LET shorter == BytesUpTo(n - 1)
         IN  shorter \cup { Append(p, b) : p \in { q \in shorter : Len(q) = n - 1 },
                                            b \in PayloadBytes }

CodecCmds == {0, 13, 255}
CodecSeqs == {0, 4660, 65535}
CodecPayloads == BytesUpTo(MaxPayload)

\* buf with bit k flipped (bit 0 = least significant bit of the first byte)
FlipBit(buf, k) ==
    [buf EXCEPT ![(k \div 8) + 1] = Toggle(@, Pow2(k % 8))]

CodecIdle ==
    /\ codec_pc = "input"
    /\ codec_args = [cmd_id |-> 0, data |-> << >>, seq |-> 0, need_ack |-> FALSE]
    /\ codec_raw = << >>
    /\ codec_flip = -1
    /\ codec_out = None

CodecInit ==
    /\ codec_pc = "input"
    /\ codec_args \in [cmd_id : CodecCmds, data : CodecPayloads,
                        seq : CodecSeqs, need_ack : BOOLEAN]
    /\ codec_raw = << >>
    /\ codec_flip = -1
    /\ codec_out = None

Encode ==
    /\ codec_pc = "input"
    /\ codec_raw' = build_packet(codec_args.cmd_id, codec_args.data,
                                 codec_args.seq, codec_args.need_ack)
    /\ codec_pc' = "built"
    /\ UNCHANGED << codec_args, codec_flip, codec_out, chan_vars, ptz_vars,
                    queue_vars >>

Corrupt ==
    /\ codec_pc = "built"
    /\ codec_flip = -1
    /\ \E k \in 0..(8 * Len(codec_raw) - 1) :
          /\ codec_raw' = FlipBit(codec_raw, k)
          /\ codec_flip' = k
    /\ UNCHANGED << codec_pc, codec_args, codec_out, chan_vars, ptz_vars,
                    queue_vars >>

\* a datagram of any sender, as recvfrom hands it over: a frame with a good
\* checksum that declares n payload bytes, whatever it carries
foreign_frame(ctrl, n, s, cmd_id, data) ==
    LET body == STX \o << ctrl >> \o PackU16(n) \o PackU16(s) \o << cmd_id >> \o data
    IN  body \o PackU16(crc16_xmodem(body, 0))

\* recvfrom returns the first k bytes of such a datagram
Receive ==
    /\ codec_pc = "input"
    /\ \E n \in 0..(MaxPayload + 3) :
          \E d \in {foreign_frame(IF codec_args.need_ack THEN 1 ELSE 2, n, codec_args.seq,
                                  codec_args.cmd_id, codec_args.data)} :
          \E k \in 0..Len(d) :
              codec_raw' = Slice(d, 0, k)
    /\ codec_pc' = "received"
    /\ UNCHANGED << codec_args, codec_flip, codec_out, chan_vars, ptz_vars,
                    queue_vars >>

Decode ==
    /\ codec_pc \in {"built", "received"}
    /\ codec_out' = parse_packet(codec_raw)
    /\ codec_pc' = IF codec_pc = "built" THEN "decoded" ELSE "parsed"
    /\ UNCHANGED << codec_args, codec_raw, codec_flip, chan_vars, ptz_vars,
                    queue_vars >>

CodecNext == Encode \/ Corrupt \/ Receive \/ Decode

(***************************************************************************)
(* Command session: scripts/rpi/test.py, main and the two requests.        *)
(* A float is [nan, v] with v in hundredths of a degree.                   *)
(***************************************************************************)

F(v) == [nan |-> FALSE, v |-> v]
NaN == [nan |-> TRUE, v |-> 0]

YAW_MIN == -13500
YAW_MAX == 13500
PITCH_MIN == -9000
PITCH_MAX == 4500

CMD_ATTITUDE == 13
CMD_SET_ANGLES == 14

\* Python's a < b on floats: false when either is a NaN
py_lt(a, b) == ~a.nan /\ ~b.nan /\ a.v < b.v

\* Python's min(a, b) and max(a, b): the first argument unless the second beats it
py_min(a, b) == IF py_lt(b, a) THEN b ELSE a
py_max(a, b) == IF py_lt(a, b) THEN b ELSE a

\* clamp without the upper limit
clamp_lower_only(v, a, b) == py_max(a, v)

clamp(v, a, b) == py_max(a, py_min(b, v))

\* Python's round(n / d) for d > 0: to nearest, ties to the even integer
RoundHalfEven(n, d) ==
    LET q == n \div d
        r == n % d
    IN  IF 2 * r < d THEN q
        ELSE IF 2 * r > d THEN q + 1
        ELSE IF q % 2 = 0 THEN q ELSE q + 1

\* int(round(x * 10.0)) for x in hundredths of a degree
Tenths(x) == RoundHalfEven(x.v, 10)

\* struct.pack("<h", v) raises unless v fits a signed 16-bit integer
FitsS16(v) == v >= -32768 /\ v <= 32767

\* the absent value (Python None) and a present one
Some(v) == [ok |-> TRUE, val |-> v]

\* a frame as the gimbal puts it on the wire: any ctrl byte, same layout
device_frame(ctrl, cmd_id, data, s) ==
    LET body == STX \o << ctrl >> \o PackU16(Len(data)) \o PackU16(s) \o << cmd_id >> \o data
    IN  body \o PackU16(crc16_xmodem(body, 0))

\* payload of signed 16-bit little-endian tenths of a degree
PackAngles(vs) ==
    IF Len(vs) = 0 THEN << >>
    ELSE LET rest[i \in 0..Len(vs)] ==
                 IF i = 0 THEN << >> ELSE rest[i - 1] \o PackS16(vs[i])
         IN  rest[Len(vs)]

\* struct.unpack("<hhh", d[:6]) / 10.0, in hundredths of a degree
UnpackAngles3(d) ==
    << 10 * UnpackS16(Slice(d, 0, 2)),
       10 * UnpackS16(Slice(d, 2, 4)),
       10 * UnpackS16(Slice(d, 4, 6)) >>

\* ticks of the polling window TIMEOUT_S (also the socket timeout)
WindowTicks == 2

\* cap on the datagrams sent in one explored session
MaxSends == 6

\* the datagrams the network may deliver to the socket
GarbageShort  == << 85, 102, 0 >>
AttStream     == device_frame(0, CMD_ATTITUDE, PackAngles(<< 100, -50, 0, 0, 0, 0 >>), 7)
AttAck        == device_frame(2, CMD_ATTITUDE, PackAngles(<< 1350, -900, 3, 0, 0, 0 >>), 0)
AttAckShort   == device_frame(2, CMD_ATTITUDE, PackAngles(<< 1350, -900, 3 >>), 0)
SetAck        == device_frame(2, CMD_SET_ANGLES, PackAngles(<< 1350, -900, 0 >>), 1)
SetNoAck      == device_frame(1, CMD_SET_ANGLES, PackAngles(<< 10, 20, 30 >>), 1)
SetAckShort   == device_frame(2, CMD_SET_ANGLES, PackAngles(<< 1350, -900 >>), 1)
OtherAck      == device_frame(2, 25, PackAngles(<< 1, 2, 3, 4, 5, 6 >>), 1)
SetAckCorrupt == FlipBit(SetAck, 77)

Traffic == { GarbageShort, AttStream, AttAck, AttAckShort, SetAck, SetNoAck,
             SetAckShort, OtherAck, SetAckCorrupt }

\* the angle pairs typed at the prompt
Requests == { << F(20000), F(-99900) >>, << F(0), F(0) >>, << F(-13505), F(4505) >>,
              << F(15), F(-25) >>, << F(-1234), F(-36) >>, << NaN, NaN >> }

\* no request of the round has returned on a datagram
NoAnswers == [before |-> << >>, set |-> << >>, after |-> << >>]

ChanInit ==
    /\ pc = "ask"
    /\ seq = 0
    /\ yaw = F(0)
    /\ pitch = F(0)
    /\ t = 0
    /\ pkt = << >>
    /\ nsent = 0
    /\ raw = << >>
    /\ before = None
    /\ set_ret = None
    /\ after = None
    /\ answered = NoAnswers

\* sendto followed by t0 = time.time(): the request starts polling
SendAndPoll(datagram, at) ==
    /\ pkt' = datagram
    /\ nsent' = nsent + 1
    /\ t' = 0
    /\ raw' = << >>
    /\ pc' = at

\* request_attitude up to the polling loop
StartAttitude(s, at) ==
    SendAndPoll(build_packet(CMD_ATTITUDE, << >>, s, TRUE), at)

\* set_angles_with_ack up to the polling loop; int(round(nan)) and struct.pack
\* of a value outside 16 bits raise, and main lets the exception out
StartSetAngles(s) ==
    LET yaw_deg   == clamp(yaw, F(YAW_MIN), F(YAW_MAX))
        pitch_deg == clamp(pitch, F(PITCH_MIN), F(PITCH_MAX))
    IN  IF yaw_deg.nan \/ pitch_deg.nan
           \/ ~FitsS16(Tenths(yaw_deg)) \/ ~FitsS16(Tenths(pitch_deg))
        THEN /\ pc' = "raised"
             /\ UNCHANGED << pkt, nsent, t, raw >>
        ELSE SendAndPoll(build_packet(CMD_SET_ANGLES,
                                      PackS16(Tenths(yaw_deg)) \o PackS16(Tenths(pitch_deg)),
                                      s, TRUE),
                         "set")

\* the (yaw_deg, pitch_deg) pair set_angles_with_ack returns as "sent"
SentPair ==
    << clamp(yaw, F(YAW_MIN), F(YAW_MAX)), clamp(pitch, F(PITCH_MIN), F(PITCH_MAX)) >>

\* the counter masked to 8 bits instead of 16
NextSeq_mask_8_bits(s) == (s + 1) % 256

\* seq = (seq + 1) & 0xFFFF
NextSeq(s) == (s + 1) % 65536

\* the running request returns r to main, on datagram f if it matched one;
\* main bumps seq and goes on
Return(r, f) ==
    /\ seq' = NextSeq(seq)
    /\ answered' = [answered EXCEPT ![pc] = f]
    /\ CASE pc = "before" ->
              /\ before' = r
              /\ StartSetAngles(NextSeq(seq))
              /\ UNCHANGED << set_ret, after >>
         [] pc = "set" ->
              /\ set_ret' = r
              /\ StartAttitude(NextSeq(seq), "after")
              /\ UNCHANGED << before, after >>
         [] pc = "after" ->
              /\ after' = r
              /\ pc' = "report"
              /\ UNCHANGED << before, set_ret, pkt, nsent, t, raw >>
    /\ UNCHANGED << yaw, pitch >>

\* what the running request returns when its window ends without a match
NoMatch ==
    IF pc = "set" THEN [ok |-> FALSE, ack_angles |-> None, sent |-> SentPair]
    ELSE None

\* the test of request_attitude without the look at the payload length
AttitudeMatch_any_payload(p) == p.cmd_id = CMD_ATTITUDE

\* the test a parsed frame p must pass for request_attitude to return it
AttitudeMatch(p) == p.cmd_id = CMD_ATTITUDE /\ Len(p.data) >= 12

\* the test of set_angles_with_ack without the look at the ack bit
SetAnglesMatch_ignores_ack_bit(p) == p.cmd_id = CMD_SET_ANGLES /\ Len(p.data) >= 6

\* the test of set_angles_with_ack without the look at the command id
SetAnglesMatch_any_command(p) == Bit(p.ctrl, 1) = 1 /\ Len(p.data) >= 6

\* the test a parsed frame p must pass for set_angles_with_ack to return it
SetAnglesMatch(p) ==
    p.cmd_id = CMD_SET_ANGLES /\ Bit(p.ctrl, 1) = 1 /\ Len(p.data) >= 6

\* main reads both angles and calls the first request_attitude
AskAngles(reqs, cap) ==
    /\ pc = "ask"
    /\ nsent + 3 <= cap
    /\ \E r \in reqs :
          /\ yaw' = r[1]
          /\ pitch' = r[2]
    /\ StartAttitude(seq, "before")
    /\ UNCHANGED << seq, before, set_ret, after, answered, codec_vars, ptz_vars,
                    queue_vars >>

\* a prompt answered with something float() rejects: main prints and asks again
AskInvalid ==
    /\ pc = "ask"
    /\ UNCHANGED vars

\* a prompt answered with q: main leaves the loop and closes the socket
AskQuit ==
    /\ pc = "ask"
    /\ pc' = "closed"
    /\ UNCHANGED << seq, yaw, pitch, t, pkt, nsent, raw, before, set_ret, after,
                    answered, codec_vars, ptz_vars,
                    queue_vars >>

\* the request sending its datagram again after every dropped datagram
Discard_resends(f, d) ==
    /\ raw' = f
    /\ t' = t + d
    /\ nsent' = nsent + 1
    /\ UNCHANGED << pc, seq, yaw, pitch, pkt, before, set_ret, after, answered >>

\* the window restarted by every dropped datagram
Discard_restarts_window(f, d) ==
    /\ raw' = f
    /\ t' = d
    /\ UNCHANGED << pc, seq, yaw, pitch, pkt, nsent, before, set_ret, after, answered >>

\* the request drops datagram f, received after d ticks, and polls on
Discard(f, d) ==
    /\ raw' = f
    /\ t' = t + d
    /\ UNCHANGED << pc, seq, yaw, pitch, pkt, nsent, before, set_ret, after, answered >>

\* recvfrom returns a datagram within the socket timeout; the request parses
\* and tests it
Recv(frames, parsed) ==
    /\ pc \in {"before", "set", "after"}
    /\ t < WindowTicks
    /\ \E f \in frames :
          LET p == parsed[f] IN
          IF p = None
            THEN \E d \in 0..(WindowTicks - 1) : Discard(f, d)
          ELSE IF pc = "set" /\ SetAnglesMatch(p)
            THEN Return([ok |-> TRUE, ack_angles |-> Some(UnpackAngles3(p.data)),
                         sent |-> SentPair], f)
          ELSE IF pc # "set" /\ AttitudeMatch(p)
            THEN Return(Some(UnpackAngles3(p.data)), f)
          ELSE \E d \in 0..(WindowTicks - 1) : Discard(f, d)
    /\ UNCHANGED << codec_vars, ptz_vars,
                    queue_vars >>

\* recvfrom raises socket.timeout: the request leaves the loop
RecvTimeout ==
    /\ pc \in {"before", "set", "after"}
    /\ t < WindowTicks
    /\ Return(NoMatch, << >>)
    /\ UNCHANGED << codec_vars, ptz_vars,
                    queue_vars >>

\* the loop test finds the window used up
WindowElapsed ==
    /\ pc \in {"before", "set", "after"}
    /\ t >= WindowTicks
    /\ Return(NoMatch, << >>)
    /\ UNCHANGED << codec_vars, ptz_vars,
                    queue_vars >>

\* main prints the results and goes back to the prompt
Report ==
    /\ pc = "report"
    /\ pc' = "ask"
    /\ before' = None
    /\ set_ret' = None
    /\ after' = None
    /\ answered' = NoAnswers
    /\ UNCHANGED << seq, yaw, pitch, t, pkt, nsent, raw, codec_vars, ptz_vars,
                    queue_vars >>

ParsedTraffic == [f \in Traffic |-> parse_packet(f)]

ChanNext ==
    \/ AskAngles(Requests, MaxSends)
    \/ AskInvalid
    \/ AskQuit
    \/ Recv(Traffic, ParsedTraffic)
    \/ RecvTimeout
    \/ WindowElapsed
    \/ Report

(***************************************************************************)
(* Virtual PTZ pipeline: source/vision/ptz.py.                             *)
(* A frame is its size [w, h]; a target is [id, bbox] with id None or      *)
(* Some(track id) and bbox = <<x1, y1, x2, y2>> in pixels.  zoom_min,      *)
(* zoom_max, zoom_step and zoom are hundredths; the configurations whose   *)
(* zoom a joystick can step are multiples of 0.5, which binary floating    *)
(* point adds, compares and divides into a frame size without a rounding   *)
(* error that int() could see, so the fixed-point values are the values    *)
(* the program holds.                                                      *)
(* The pipeline is built with display=None and the telemetry overlay off   *)
(* (the defaults), so update() is not called and _apply_overlay returns    *)
(* the frame it is given.                                                  *)
(***************************************************************************)

\* int(n / d) for d > 0: Python's int() truncates toward zero
Trunc(n, d) == IF n >= 0 THEN n \div d ELSE -((-n) \div d)

\* the ids list built by _apply_joystick and the tid of _select_active_target:
\* the target's id, or its zero-based index when the id is None
ids_of(tgts) ==
    [i \in 1..Len(tgts) |-> IF tgts[i].id.ok THEN tgts[i].id.val ELSE i - 1]

\* active_target_id in ids
InIds(active, ids) == active.ok /\ \E i \in 1..Len(ids) : ids[i] = active.val

\* ids.index(active_target_id): zero-based position of the first occurrence
IndexOf(active, ids) ==
    (CHOOSE i \in 1..Len(ids) :
        /\ ids[i] = active.val
        /\ \A j \in 1..(i - 1) : ids[j] # active.val) - 1

\* the wide and zoom_delta branches of _apply_joystick
zoom_update_ignores_zoom_max(st, upd) ==
    LET w == IF upd.wide
             THEN [st EXCEPT !.force_wide = TRUE, !.zoom = st.zoom_min]
             ELSE st
    IN  IF upd.zoom_delta # 0
        THEN [w EXCEPT !.force_wide = FALSE,
                       !.zoom = Max(w.zoom_min, w.zoom + upd.zoom_delta * w.zoom_step)]
        ELSE w

zoom_update(st, upd) ==
    LET w == IF upd.wide
             THEN [st EXCEPT !.force_wide = TRUE, !.zoom = st.zoom_min]
             ELSE st
    IN  IF upd.zoom_delta # 0
        THEN [w EXCEPT !.force_wide = FALSE,
                       !.zoom = Max(w.zoom_min,
                                    Min(w.zoom_max,
                                        w.zoom + upd.zoom_delta * w.zoom_step))]
        ELSE w

\* the target_delta branch of _apply_joystick
target_update_no_wrap(st, upd, tgts) ==
    LET ids == ids_of(tgts)
    IN  IF upd.target_delta # 0 /\ Len(tgts) > 0
        THEN IF ~InIds(st.active_target_id, ids)
             THEN [st EXCEPT !.active_target_id = Some(ids[1])]
             ELSE LET current_idx == IndexOf(st.active_target_id, ids)
                      new_idx == Max(0, Min(Len(ids) - 1, current_idx + upd.target_delta))
                  IN  [st EXCEPT !.active_target_id = Some(ids[new_idx + 1]),
                                 !.force_wide = FALSE]
        ELSE st

\* a lost active identity taken as position 0 and then advanced like a held one
target_update_snap_then_advance(st, upd, tgts) ==
    LET ids == ids_of(tgts)
    IN  IF upd.target_delta # 0 /\ Len(tgts) > 0
        THEN LET current_idx == IF InIds(st.active_target_id, ids)
                                THEN IndexOf(st.active_target_id, ids)
                                ELSE 0
                 new_idx == (current_idx + upd.target_delta) % Len(ids)
             IN  [st EXCEPT !.active_target_id = Some(ids[new_idx + 1]),
                            !.force_wide = FALSE]
        ELSE st

\* the snap to the first identity leaving wide mode like the advance does
target_update_snap_clears_wide(st, upd, tgts) ==
    LET ids == ids_of(tgts)
    IN  IF upd.target_delta # 0 /\ Len(tgts) > 0
        THEN IF ~InIds(st.active_target_id, ids)
             THEN [st EXCEPT !.active_target_id = Some(ids[1]),
                             !.force_wide = FALSE]
             ELSE LET current_idx == IndexOf(st.active_target_id, ids)
                      new_idx == (current_idx + upd.target_delta) % Len(ids)
                  IN  [st EXCEPT !.active_target_id = Some(ids[new_idx + 1]),
                                 !.force_wide = FALSE]
        ELSE st

target_update_snaps_to_last(st, upd, tgts) ==
    LET ids == ids_of(tgts)
    IN  IF upd.target_delta # 0 /\ Len(tgts) > 0
        THEN IF ~InIds(st.active_target_id, ids)
             THEN [st EXCEPT !.active_target_id = Some(ids[Len(ids)])]
             ELSE LET current_idx == IndexOf(st.active_target_id, ids)
                      new_idx == (current_idx + upd.target_delta) % Len(ids)
                  IN  [st EXCEPT !.active_target_id = Some(ids[new_idx + 1]),
                                 !.force_wide = FALSE]
        ELSE st

target_update(st, upd, tgts) ==
    LET ids == ids_of(tgts)
    IN  IF upd.target_delta # 0 /\ Len(tgts) > 0
        THEN IF ~InIds(st.active_target_id, ids)
             THEN [st EXCEPT !.active_target_id = Some(ids[1])]
             ELSE LET current_idx == IndexOf(st.active_target_id, ids)
                      new_idx == (current_idx + upd.target_delta) % Len(ids)
                  IN  [st EXCEPT !.active_target_id = Some(ids[new_idx + 1]),
                                 !.force_wide = FALSE]
        ELSE st

\* _apply_joystick on the pipeline fields st; upd is None without a joystick
apply_joystick(st, upd, tgts) ==
    IF ~upd.ok THEN st ELSE target_update(zoom_update(st, upd), upd, tgts)

\* YoloTracker.get_primary_target: the first target of the largest area,
\* None when no area exceeds the initial largest_area = 0
Area(tg) == (tg.bbox[3] - tg.bbox[1]) * (tg.bbox[4] - tg.bbox[2])

RECURSIVE LargestFrom(_, _, _, _)
LargestFrom(tgts, i, largest_area, primary_target) ==
    IF i > Len(tgts) THEN primary_target
    ELSE IF Area(tgts[i]) > largest_area
         THEN LargestFrom(tgts, i + 1, Area(tgts[i]), Some(tgts[i]))
         ELSE LargestFrom(tgts, i + 1, largest_area, primary_target)

get_primary_target(tgts) ==
    IF Len(tgts) = 0 THEN None ELSE LargestFrom(tgts, 1, 0, None)

\* _select_active_target: the first target whose tid is the active identity,
\* else the tracker's primary target; active_target_id is only read
select_active_target(tgts, active) ==
    LET ids == ids_of(tgts)
    IN  IF Len(tgts) = 0 THEN None
        ELSE IF InIds(active, ids)
             THEN Some(tgts[IndexOf(active, ids) + 1])
             ELSE get_primary_target(tgts)

\* the frame itself, returned by the pass-through branches of _crop_and_zoom
Unmodified(f) == [kind |-> "frame", w |-> f.w, h |-> f.h]

\* cv2.resize(frame[y1:y2, x1:x2], (w, h)): the crop rectangle scaled to w x h
Resized(f, x1, y1, x2, y2) ==
    [kind |-> "resized", rect |-> << x1, y1, x2, y2 >>, w |-> f.w, h |-> f.h]

\* _crop_and_zoom for a frame that is not None (run() skips a None frame)
crop_and_zoom_rounds(f, target, wide, z) ==
    IF ~target.ok \/ wide \/ z <= 101 THEN Unmodified(f)
    ELSE LET bbox == target.val.bbox
         IN  IF Len(bbox) < 4 THEN Unmodified(f)
             ELSE LET cx2 == bbox[1] + bbox[3]
                      cy2 == bbox[2] + bbox[4]
                      crop_w == Max(1, Min(f.w, RoundHalfEven(f.w * 100, z)))
                      crop_h == Max(1, Min(f.h, RoundHalfEven(f.h * 100, z)))
                      x1 == Max(0, Min(f.w - crop_w, RoundHalfEven(cx2 - crop_w, 2)))
                      y1 == Max(0, Min(f.h - crop_h, RoundHalfEven(cy2 - crop_h, 2)))
                      x2 == x1 + crop_w
                      y2 == y1 + crop_h
                 IN  IF y2 - y1 = 0 \/ x2 - x1 = 0 THEN Unmodified(f)
                     ELSE Resized(f, x1, y1, x2, y2)

\* _crop_and_zoom passing the frame through below 1.01 only, not at 1.01
crop_and_zoom_crops_at_threshold(f, target, wide, z) ==
    IF ~target.ok \/ wide \/ z < 101 THEN Unmodified(f)
    ELSE LET bbox == target.val.bbox
         IN  IF Len(bbox) < 4 THEN Unmodified(f)
             ELSE LET cx2 == bbox[1] + bbox[3]
                      cy2 == bbox[2] + bbox[4]
                      crop_w == Max(1, Min(f.w, Trunc(f.w * 100, z)))
                      crop_h == Max(1, Min(f.h, Trunc(f.h * 100, z)))
                      x1 == Max(0, Min(f.w - crop_w, Trunc(cx2 - crop_w, 2)))
                      y1 == Max(0, Min(f.h - crop_h, Trunc(cy2 - crop_h, 2)))
                      x2 == x1 + crop_w
                      y2 == y1 + crop_h
                 IN  IF y2 - y1 = 0 \/ x2 - x1 = 0 THEN Unmodified(f)
                     ELSE Resized(f, x1, y1, x2, y2)

\* _crop_and_zoom keeping the corner of the crop at 0 or more, but not at
\* w - crop_w and h - crop_h or less
crop_and_zoom_open_far_edge(f, target, wide, z) ==
    IF ~target.ok \/ wide \/ z <= 101 THEN Unmodified(f)
    ELSE LET bbox == target.val.bbox
         IN  IF Len(bbox) < 4 THEN Unmodified(f)
             ELSE LET cx2 == bbox[1] + bbox[3]
                      cy2 == bbox[2] + bbox[4]
                      crop_w == Max(1, Min(f.w, Trunc(f.w * 100, z)))
                      crop_h == Max(1, Min(f.h, Trunc(f.h * 100, z)))
                      x1 == Max(0, Trunc(cx2 - crop_w, 2))
                      y1 == Max(0, Trunc(cy2 - crop_h, 2))
                      x2 == x1 + crop_w
                      y2 == y1 + crop_h
                 IN  IF y2 - y1 = 0 \/ x2 - x1 = 0 THEN Unmodified(f)
                     ELSE Resized(f, x1, y1, x2, y2)

crop_and_zoom_ignores_force_wide(f, target, wide, z) ==
    IF ~target.ok \/ z <= 101 THEN Unmodified(f)
    ELSE LET bbox == target.val.bbox
         IN  IF Len(bbox) < 4 THEN Unmodified(f)
             ELSE LET cx2 == bbox[1] + bbox[3]
                      cy2 == bbox[2] + bbox[4]
                      crop_w == Max(1, Min(f.w, Trunc(f.w * 100, z)))
                      crop_h == Max(1, Min(f.h, Trunc(f.h * 100, z)))
                      x1 == Max(0, Min(f.w - crop_w, Trunc(cx2 - crop_w, 2)))
                      y1 == Max(0, Min(f.h - crop_h, Trunc(cy2 - crop_h, 2)))
                      x2 == x1 + crop_w
                      y2 == y1 + crop_h
                 IN  IF y2 - y1 = 0 \/ x2 - x1 = 0 THEN Unmodified(f)
                     ELSE Resized(f, x1, y1, x2, y2)

crop_and_zoom(f, target, wide, z) ==
    IF ~target.ok \/ wide \/ z <= 101 THEN Unmodified(f)
    ELSE LET bbox == target.val.bbox
         IN  IF Len(bbox) < 4 THEN Unmodified(f)
             ELSE LET cx2 == bbox[1] + bbox[3]     \* 2 * cx
                      cy2 == bbox[2] + bbox[4]     \* 2 * cy
                      crop_w == Max(1, Min(f.w, Trunc(f.w * 100, z)))
                      crop_h == Max(1, Min(f.h, Trunc(f.h * 100, z)))
                      x1 == Max(0, Min(f.w - crop_w, Trunc(cx2 - crop_w, 2)))
                      y1 == Max(0, Min(f.h - crop_h, Trunc(cy2 - crop_h, 2)))
                      x2 == x1 + crop_w
                      y2 == y1 + crop_h
                 IN  IF y2 - y1 = 0 \/ x2 - x1 = 0 THEN Unmodified(f)
                     ELSE Resized(f, x1, y1, x2, y2)

\* VideoStreamer.start_stream(host, port, width, height, fps) sets the pipeline
start_stream(width, height) == Some("pipeline")

\* the fields of the pipeline that _apply_joystick reads and writes
Fields ==
    [zoom_min |-> zoom_min, zoom_max |-> zoom_max, zoom_step |-> zoom_step,
     zoom |-> zoom, force_wide |-> force_wide,
     active_target_id |-> active_target_id]

\* what an iteration of run() finds: the fields and the streamer's pipeline
AtEntry ==
    [zoom_min |-> zoom_min, zoom_max |-> zoom_max, zoom_step |-> zoom_step,
     zoom |-> zoom, force_wide |-> force_wide,
     active_target_id |-> active_target_id, pipeline |-> pipeline,
     starts |-> starts]

\* PTZPipeline(camera, tracker, streamer, joystick=.., config=..); hw tells
\* whether the JoystickController given found its hardware
Construct(ptz, stick, hw) ==
    /\ zoom_min = ptz.zoom_min
    /\ zoom_max = ptz.zoom_max
    /\ zoom_step = ptz.zoom_step
    /\ joystick = stick
    /\ enabled = (stick /\ hw)
    /\ zoom = ptz.zoom_min
    /\ force_wide = FALSE
    /\ active_target_id = None
    /\ pipeline = None
    /\ starts = 0
    /\ entry = None
    /\ frame = None
    /\ targets = << >>
    /\ updates = None
    /\ active_target = None
    /\ output = None
    /\ pushed = None

\* the "ptz" section of the configuration: the defaults of __init__; the
\* default range with a step of 1.0, a narrow range above the 1.01 threshold,
\* and a range given upside down
DefaultPtz == [zoom_min |-> 100, zoom_max |-> 300, zoom_step |-> 10]

PtzConfigs ==
    { [zoom_min |-> 100, zoom_max |-> 300, zoom_step |-> 100],
      [zoom_min |-> 150, zoom_max |-> 200, zoom_step |-> 50],
      [zoom_min |-> 200, zoom_max |-> 100, zoom_step |-> 50],
      [zoom_min |-> 101, zoom_max |-> 151, zoom_step |-> 50] }

PTZIdle == Construct(DefaultPtz, FALSE, FALSE)

PTZInit ==
    \/ \E ptz \in PtzConfigs : Construct(ptz, TRUE, TRUE)
    \/ Construct(DefaultPtz, TRUE, FALSE)
    \/ Construct(DefaultPtz, FALSE, FALSE)

\* what the tracker reports for a frame; the scenes drawn: nobody in view,
\* three and two tracked persons in a 640x480 frame, a 3x2 frame with two
\* detections without a track id next to the track 1, and a single box
\* clipped to the edge of the frame
Target(id, x1, y1, x2, y2) == [id |-> id, bbox |-> << x1, y1, x2, y2 >>]

Scenes ==
    { [frame |-> [w |-> 640, h |-> 480], targets |-> << >>],
      [frame |-> [w |-> 640, h |-> 480],
       targets |-> << Target(Some(3), 10, 20, 110, 220),
                      Target(Some(7), 270, 190, 370, 290),
                      Target(Some(9), 500, 300, 640, 480) >>],
      \* two boxes of equal area, the first reaching beyond the frame
      [frame |-> [w |-> 640, h |-> 480],
       targets |-> << Target(Some(2), 600, 400, 700, 500),
                      Target(Some(5), 100, 100, 200, 200) >>],
      [frame |-> [w |-> 3, h |-> 2],
       targets |-> << Target(None, 0, 0, 2, 1),
                      Target(None, 1, 0, 3, 2),
                      Target(Some(1), 0, 1, 3, 2) >>],
      \* one box of no width, on the right edge of the frame
      [frame |-> [w |-> 640, h |-> 480],
       targets |-> << Target(Some(4), 640, 100, 640, 200) >>] }

\* JoystickController.poll() of source/hardware/buttons.py: zero deltas when
\* the controller has no hardware (hw is self.enabled), else the deltas summed
\* over the events gathered since the last poll, each [action, direction]
RECURSIVE poll_from(_, _, _)
poll_from(events, i, acc) ==
    IF i > Len(events) THEN acc
    ELSE LET event == events[i]
             next ==
                IF event.action # "pressed" THEN acc
                ELSE CASE event.direction = "left" ->
                            [acc EXCEPT !.target_delta = @ - 1]
                       [] event.direction = "right" ->
                            [acc EXCEPT !.target_delta = @ + 1]
                       [] event.direction = "up" ->
                            [acc EXCEPT !.zoom_delta = @ + 1]
                       [] event.direction = "down" ->
                            [acc EXCEPT !.zoom_delta = @ - 1]
                       [] event.direction = "middle" ->
                            [acc EXCEPT !.wide = TRUE]
                       [] OTHER -> acc
         IN  poll_from(events, i + 1, next)

poll(hw, events) ==
    IF ~hw
    THEN [ok |-> TRUE, target_delta |-> 0, zoom_delta |-> 0, wide |-> FALSE]
    ELSE poll_from(events, 1,
                   [ok |-> TRUE, target_delta |-> 0, zoom_delta |-> 0,
                    wide |-> FALSE])

\* the events one poll can gather: at most MaxEvents of them
MaxEvents == 2

StickEvents ==
    { [action |-> "pressed", direction |-> d] :
        d \in {"left", "right", "up", "down", "middle"} }
    \cup { [action |-> "released", direction |-> "up"] }

RECURSIVE EventsUpTo(_)
EventsUpTo(n) ==
    IF n = 0 THEN { << >> }
    ELSE LET shorter == EventsUpTo(n - 1)
         IN  shorter \cup { Append(es, e) : es \in shorter, e \in StickEvents }

Polls == { poll(enabled, es) : es \in EventsUpTo(MaxEvents) }

\* the iteration storing the identity of whatever detection it selected
RunFrame_adopts_selection ==
    \E scene \in Scenes, polled \in Polls :
        \E upd \in {IF joystick THEN polled ELSE None} :
        \E st \in {apply_joystick(Fields, upd, scene.targets)} :
        \E sel \in {select_active_target(scene.targets, st.active_target_id)} :
        \E out \in {crop_and_zoom(scene.frame, sel, st.force_wide, st.zoom)} :
            /\ entry' = Some(AtEntry)
            /\ frame' = Some(scene.frame)
            /\ targets' = scene.targets
            /\ updates' = upd
            /\ zoom' = st.zoom
            /\ force_wide' = st.force_wide
            /\ active_target_id' = IF sel = None THEN st.active_target_id
                                   ELSE sel.val.id
            /\ active_target' = sel
            /\ output' = out
            /\ pipeline' = IF pipeline = None THEN start_stream(out.w, out.h)
                           ELSE pipeline
            /\ starts' = IF pipeline = None THEN starts + 1 ELSE starts
            /\ pushed' = out
            /\ UNCHANGED << zoom_min, zoom_max, zoom_step, joystick, enabled,
                            codec_vars, chan_vars,
                    queue_vars >>

\* the iteration starting the stream for every frame, started or not
RunFrame_starts_every_frame ==
    \E scene \in Scenes, polled \in Polls :
        \E upd \in {IF joystick THEN polled ELSE None} :
        \E st \in {apply_joystick(Fields, upd, scene.targets)} :
        \E sel \in {select_active_target(scene.targets, st.active_target_id)} :
        \E out \in {crop_and_zoom(scene.frame, sel, st.force_wide, st.zoom)} :
            /\ entry' = Some(AtEntry)
            /\ frame' = Some(scene.frame)
            /\ targets' = scene.targets
            /\ updates' = upd
            /\ zoom' = st.zoom
            /\ force_wide' = st.force_wide
            /\ active_target_id' = st.active_target_id
            /\ active_target' = sel
            /\ output' = out
            /\ pipeline' = start_stream(out.w, out.h)
            /\ starts' = starts + 1
            /\ pushed' = out
            /\ UNCHANGED << zoom_min, zoom_max, zoom_step, joystick, enabled,
                            codec_vars, chan_vars,
                    queue_vars >>

\* one iteration of the loop of run() in which camera.read() returns a frame
RunFrame ==
    \E scene \in Scenes, polled \in Polls :
        \E upd \in {IF joystick THEN polled ELSE None} :
        \E st \in {apply_joystick(Fields, upd, scene.targets)} :
        \E sel \in {select_active_target(scene.targets, st.active_target_id)} :
        \E out \in {crop_and_zoom(scene.frame, sel, st.force_wide, st.zoom)} :
            /\ entry' = Some(AtEntry)
            /\ frame' = Some(scene.frame)
            /\ targets' = scene.targets
            /\ updates' = upd
            /\ zoom' = st.zoom
            /\ force_wide' = st.force_wide
            /\ active_target_id' = st.active_target_id
            /\ active_target' = sel
            /\ output' = out
            /\ pipeline' = IF pipeline = None THEN start_stream(out.w, out.h)
                           ELSE pipeline
            /\ starts' = IF pipeline = None THEN starts + 1 ELSE starts
            /\ pushed' = out
            /\ UNCHANGED << zoom_min, zoom_max, zoom_step, joystick, enabled,
                            codec_vars, chan_vars,
                    queue_vars >>

\* one iteration in which camera.read() returns None: sleep and continue
RunNoFrame ==
    /\ entry' = Some(AtEntry)
    /\ frame' = None
    /\ targets' = << >>
    /\ updates' = None
    /\ active_target' = None
    /\ output' = None
    /\ pushed' = None
    /\ UNCHANGED << zoom_min, zoom_max, zoom_step, joystick, enabled, zoom,
                    force_wide, active_target_id, pipeline, starts, codec_vars,
                    chan_vars,
                    queue_vars >>

PTZNext == RunFrame \/ RunNoFrame

(***************************************************************************)
(* Frame queue of the PC node: scripts/pc/main.py.                         *)
(* The receiver calls on_frame_received from its own thread, one call at a *)
(* time; main() takes the frames off the queue and shows them.  Each       *)
(* method of queue.Queue runs under the queue's mutex, so full(), put(),   *)
(* empty() and get() are single steps; the threads interleave between      *)
(* them.  Frames are numbered in the order they arrive.                    *)
(***************************************************************************)

\* frame_queue = queue.Queue(maxsize=10)
maxsize == 10

\* the frames the receiver delivers in a run
MaxFrames == 12

\* frame_queue.full() and frame_queue.empty()
full(q) == Len(q) >= maxsize

empty(q) == Len(q) = 0

\* main() has started the receiver and enters its loop
QueueInit ==
    /\ frame_queue = << >>
    /\ receiving = TRUE
    /\ arrived = 0
    /\ recv_pc = "idle"
    /\ recv_frame = 0
    /\ seen = 0
    /\ dropped = {}
    /\ enqueued = << >>
    /\ main_pc = "loop"
    /\ main_frame = 0
    /\ displayed = << >>

\* the callback putting every frame without asking whether the queue is full
on_frame_received_without_check ==
    /\ receiving
    /\ recv_pc = "idle"
    /\ arrived < MaxFrames
    /\ arrived' = arrived + 1
    /\ seen' = Len(frame_queue)
    /\ recv_pc' = "put"
    /\ recv_frame' = arrived + 1
    /\ dropped' = dropped
    /\ UNCHANGED << frame_queue, receiving, enqueued, main_pc, main_frame,
                    displayed, codec_vars, chan_vars, ptz_vars >>

\* on_frame_received(frame) up to its test: `if not frame_queue.full()`
on_frame_received ==
    /\ receiving
    /\ recv_pc = "idle"
    /\ arrived < MaxFrames
    /\ arrived' = arrived + 1
    /\ seen' = Len(frame_queue)
    /\ recv_pc' = IF full(frame_queue) THEN "idle" ELSE "put"
    /\ recv_frame' = IF full(frame_queue) THEN 0 ELSE arrived + 1
    /\ dropped' = IF full(frame_queue) THEN dropped \cup {arrived + 1}
                  ELSE dropped
    /\ UNCHANGED << frame_queue, receiving, enqueued, main_pc, main_frame,
                    displayed, codec_vars, chan_vars, ptz_vars >>

\* frame_queue.put(frame): waits for a free slot when the queue is full
put ==
    /\ recv_pc = "put"
    /\ recv_pc' = IF full(frame_queue) THEN "blocked" ELSE "idle"
    /\ frame_queue' = IF full(frame_queue) THEN frame_queue
                      ELSE Append(frame_queue, recv_frame)
    /\ enqueued' = IF full(frame_queue) THEN enqueued
                   ELSE Append(enqueued, recv_frame)
    /\ recv_frame' = IF full(frame_queue) THEN recv_frame ELSE 0
    /\ UNCHANGED << receiving, arrived, seen, dropped, main_pc, main_frame,
                    displayed, codec_vars, chan_vars, ptz_vars >>

\* the head of the loop of main(): `if not frame_queue.empty()`, else sleep
poll_queue ==
    /\ main_pc = "loop"
    /\ main_pc' = IF empty(frame_queue) THEN "loop" ELSE "get"
    /\ UNCHANGED << frame_queue, receiving, arrived, recv_pc, recv_frame, seen,
                    dropped, enqueued, main_frame, displayed, codec_vars,
                    chan_vars, ptz_vars >>

\* frame = frame_queue.get(): waits for a frame when the queue is empty
get ==
    /\ main_pc = "get"
    /\ main_pc' = IF empty(frame_queue) THEN "blocked" ELSE "show"
    /\ main_frame' = IF empty(frame_queue) THEN main_frame
                     ELSE Head(frame_queue)
    /\ frame_queue' = IF empty(frame_queue) THEN frame_queue
                      ELSE Tail(frame_queue)
    /\ UNCHANGED << receiving, arrived, recv_pc, recv_frame, seen, dropped,
                    enqueued, displayed, codec_vars, chan_vars, ptz_vars >>

\* cv2.imshow(frame), then cv2.waitKey(1): the key q leaves the loop
show ==
    \E quit \in BOOLEAN :
        /\ main_pc = "show"
        /\ displayed' = Append(displayed, main_frame)
        /\ main_frame' = 0
        /\ main_pc' = IF quit THEN "quitting" ELSE "loop"
        /\ UNCHANGED << frame_queue, receiving, arrived, recv_pc, recv_frame,
                        seen, dropped, enqueued, codec_vars, chan_vars,
                        ptz_vars >>

\* KeyboardInterrupt raised in the loop of main()
interrupt ==
    /\ main_pc \in {"loop", "get", "show"}
    /\ main_pc' = "quitting"
    /\ main_frame' = 0
    /\ UNCHANGED << frame_queue, receiving, arrived, recv_pc, recv_frame, seen,
                    dropped, enqueued, displayed, codec_vars, chan_vars,
                    ptz_vars >>

\* the finally block of main(): receiver.stop_receiving()
stop_receiving ==
    /\ main_pc = "quitting"
    /\ main_pc' = "done"
    /\ receiving' = FALSE
    /\ UNCHANGED << frame_queue, arrived, recv_pc, recv_frame, seen, dropped,
                    enqueued, main_frame, displayed, codec_vars, chan_vars,
                    ptz_vars >>

QueueNext ==
    on_frame_received \/ put \/ poll_queue \/ get \/ show \/ interrupt
        \/ stop_receiving

InitCodec == CodecInit /\ ChanInit /\ PTZIdle /\ QueueInit

SpecCodec == InitCodec /\ [][CodecNext]_vars

InitChan == CodecIdle /\ ChanInit /\ PTZIdle /\ QueueInit

SpecChan == InitChan /\ [][ChanNext]_vars

InitPTZ == CodecIdle /\ ChanInit /\ PTZInit /\ QueueInit

SpecPTZ == InitPTZ /\ [][PTZNext]_vars

InitQueue == CodecIdle /\ ChanInit /\ PTZIdle /\ QueueInit

SpecQueue == InitQueue /\ [][QueueNext]_vars

\* the yaw and pitch fields, in tenths of a degree, of a set-angles datagram
SentTenths(datagram) ==
    LET p == parse_packet(datagram)
    IN  << UnpackS16(Slice(p.data, 0, 2)), UnpackS16(Slice(p.data, 2, 4)) >>

\* tenths is the value v (hundredths, or a NaN) brought into [lo, hi] and
\* rounded to a tenth of a degree
ClampedTenths(v, lo, hi, tenths) ==
    /\ 10 * tenths >= lo
    /\ 10 * tenths <= hi
    /\ (~v.nan /\ v.v >= hi) => 10 * tenths = hi
    /\ (~v.nan /\ v.v <= lo) => 10 * tenths = lo
    /\ (~v.nan /\ v.v > lo /\ v.v < hi) =>
          (10 * tenths - v.v <= 5 /\ v.v - 10 * tenths <= 5)

\* x is the float v brought into [lo, hi]
ClampedFloat(v, lo, hi, x) ==
    /\ ~x.nan
    /\ x.v >= lo
    /\ x.v <= hi
    /\ (~v.nan /\ v.v >= lo /\ v.v <= hi) => x.v = v.v
    /\ (~v.nan /\ v.v > hi) => x.v = hi
    /\ (~v.nan /\ v.v < lo) => x.v = lo

\* C3: set_angles_with_ack never rejects a request; the datagram it sends
\* carries yaw clamped to [-135, 135] and pitch clamped to [-90, 45] in tenths
\* of a degree (1350 and -900 for yaw = 200, pitch = -999), and the "sent"
\* pair it returns is the clamped pair, acked or timed out.
AnglesClamped ==
    /\ pc # "raised"
    /\ pc = "set" =>
          LET sent == SentTenths(pkt) IN
          /\ parse_packet(pkt).cmd_id = CMD_SET_ANGLES
          /\ Len(parse_packet(pkt).data) = 4
          /\ ClampedTenths(yaw, YAW_MIN, YAW_MAX, sent[1])
          /\ ClampedTenths(pitch, PITCH_MIN, PITCH_MAX, sent[2])
          /\ (yaw = F(20000) /\ pitch = F(-99900)) => sent = << 1350, -900 >>
    /\ set_ret # None =>
          /\ ClampedFloat(yaw, YAW_MIN, YAW_MAX, set_ret.sent[1])
          /\ ClampedFloat(pitch, PITCH_MIN, PITCH_MAX, set_ret.sent[2])

\* yaw = 200, pitch = -999 was sent as 135.0, -90.0 and the request timed out
AnglesClampedWitness ==
    /\ pc = "after"
    /\ yaw = F(20000)
    /\ pitch = F(-99900)
    /\ set_ret # None
    /\ ~set_ret.ok
    /\ set_ret.sent = << F(13500), F(-9000) >>

\* the datagram a request returned on is checksum-valid, carries command id
\* cmd, and has its ack bit (ctrl bit 1) set if ackbit is asked for
AnsweredBy(f, cmd, ackbit) ==
    /\ f \in Traffic
    /\ ParsedTraffic[f] # None
    /\ ParsedTraffic[f].cmd_id = cmd
    /\ ackbit => Bit(ParsedTraffic[f].ctrl, 1) = 1

\* C4 as claimed: every request reports success only on a checksum-valid frame
\* with its own command id and the ack bit set.
AckMatchingAsClaimed ==
    /\ before # None => AnsweredBy(answered.before, CMD_ATTITUDE, TRUE)
    /\ (set_ret # None /\ set_ret.ok) => AnsweredBy(answered.set, CMD_SET_ANGLES, TRUE)
    /\ after # None => AnsweredBy(answered.after, CMD_ATTITUDE, TRUE)

\* C4 (amended): set_angles_with_ack reports success only on a checksum-valid
\* frame with command id 0x0E, the ack bit set and at least 6 payload bytes;
\* request_attitude reports success only on a checksum-valid frame with command
\* id 0x0D and at least 12 payload bytes, with or without the ack bit.
AckMatching ==
    /\ before # None =>
          /\ AnsweredBy(answered.before, CMD_ATTITUDE, FALSE)
          /\ Len(ParsedTraffic[answered.before].data) >= 12
    /\ (set_ret # None /\ set_ret.ok) =>
          /\ AnsweredBy(answered.set, CMD_SET_ANGLES, TRUE)
          /\ Len(ParsedTraffic[answered.set].data) >= 6
    /\ after # None =>
          /\ AnsweredBy(answered.after, CMD_ATTITUDE, FALSE)
          /\ Len(ParsedTraffic[answered.after].data) >= 12

\* an attitude read answered by a frame without the ack bit, then a set-angles
\* request answered by an acknowledgement
AckMatchingWitness ==
    /\ before # None
    /\ answered.before = AttStream
    /\ set_ret # None
    /\ set_ret.ok
    /\ answered.set = SetAck

\* a request is polling
Requesting == pc \in {"before", "set", "after"}

\* time.time() moves on while a request polls: recvfrom hands over a datagram
\* that is dropped after at least one tick, or raises socket.timeout
LateDiscard ==
    /\ Requesting
    /\ t < WindowTicks
    /\ \E f \in Traffic :
          /\ LET p == ParsedTraffic[f]
             IN  IF p = None THEN TRUE
                 ELSE IF pc = "set" THEN ~SetAnglesMatch(p) ELSE ~AttitudeMatch(p)
          /\ \E d \in 1..(WindowTicks - 1) : Discard(f, d)
    /\ UNCHANGED << codec_vars, ptz_vars,
                    queue_vars >>

TimeAdvances == LateDiscard \/ RecvTimeout

\* the session in which time advances during every request
SpecChanFair ==
    InitChan /\ [][ChanNext]_vars /\ WF_vars(TimeAdvances) /\ WF_vars(WindowElapsed)

\* each request that has returned reported success exactly when it returned
\* on a datagram, and a timeout (None, ok = False) otherwise
Outcomes ==
    /\ pc \in {"set", "after", "report"} =>
          (before # None <=> answered.before # << >>)
    /\ pc \in {"after", "report"} =>
          /\ set_ret # None
          /\ set_ret.ok <=> answered.set # << >>
          /\ set_ret.ok <=> set_ret.ack_angles # None
    /\ pc = "report" => (after # None <=> answered.after # << >>)

\* C11: provided time advances, every request eventually returns, with
\* exactly one of success or timeout, and never raises, whatever arrives: no
\* datagram, checksum-invalid datagrams, or an endless stream of valid frames
\* that do not match.
TimeoutReturned ==
    /\ (pc = "before") ~> (pc = "set")
    /\ (pc = "set") ~> (pc = "after")
    /\ (pc = "after") ~> (pc = "report")
    /\ [](pc # "raised")
    /\ []Outcomes

\* the last request polled valid frames that did not match until its window
\* had elapsed, and returned the timeout
TimeoutReturnedWitness ==
    /\ pc = "report"
    /\ after = None
    /\ answered.after = << >>
    /\ raw = OtherAck
    /\ t >= WindowTicks

\* the sequence numbers of the three requests main has made when it reports
SeqBefore == (seq + 65533) % 65536
SeqSet    == (seq + 65534) % 65536
SeqAfter  == (seq + 65535) % 65536

\* the first request_attitude timed out and a checksum-valid reply carrying
\* its sequence number and command id came in while the second one polled
StaleReply ==
    /\ pc = "report"
    /\ before = None
    /\ answered.after # << >>
    /\ ParsedTraffic[answered.after].seq = SeqBefore

\* C14 as claimed: the reply sent for an earlier request that has timed out
\* is never reported as the acknowledgement of a later request with the same
\* command id.
AckCorrelationAsClaimed == ~StaleReply

\* a result main holds is not touched by the requests that follow
TimeoutTerminal ==
    /\ pc \in {"set", "after"} => before' = before
    /\ pc = "after" => set_ret' = set_ret

\* C14 amended: with one outstanding request at a time a timeout is terminal
\* for that attempt, and the command id, not the sequence number, correlates
\* a reply to a request: what a request reports carries the request's
\* command id, so the reply to a timed-out request is never reported as the
\* acknowledgement of a later request with another command id, whatever
\* sequence number it carries.
AckCorrelation ==
    /\ [][TimeoutTerminal]_vars
    /\ [](answered.before # << >> =>
              ParsedTraffic[answered.before].cmd_id = CMD_ATTITUDE)
    /\ [](answered.set # << >> =>
              ParsedTraffic[answered.set].cmd_id = CMD_SET_ANGLES)
    /\ [](answered.after # << >> =>
              ParsedTraffic[answered.after].cmd_id = CMD_ATTITUDE)

\* the attitude reply numbered like the first request, which had timed out,
\* was reported as the result of the second request_attitude, while the
\* set-angles request in between had dropped it and timed out
AckCorrelationWitness ==
    /\ StaleReply
    /\ answered.after = AttAck
    /\ SeqAfter # SeqBefore
    /\ ~set_ret.ok

\* the command id of the request that is polling
OwnCommand == IF pc = "set" THEN CMD_SET_ANGLES ELSE CMD_ATTITUDE

\* datagram f is a checksum-valid frame with the polling request's command
\* id and the ack bit set
MatchingAck(f) ==
    /\ ParsedTraffic[f] # None
    /\ ParsedTraffic[f].cmd_id = OwnCommand
    /\ Bit(ParsedTraffic[f].ctrl, 1) = 1

\* datagram f is a checksum-valid frame with the polling request's command
\* id and the reply's payload, and with the ack bit set if set_angles_with_ack
\* is the one polling
MatchingReply(f) ==
    /\ ParsedTraffic[f] # None
    /\ ParsedTraffic[f].cmd_id = OwnCommand
    /\ Len(ParsedTraffic[f].data) >= (IF pc = "set" THEN 6 ELSE 12)
    /\ pc = "set" => Bit(ParsedTraffic[f].ctrl, 1) = 1

\* the step leaves the request polling: nothing returned, nothing sent
KeepsPolling ==
    /\ pc' = pc
    /\ UNCHANGED << before, set_ret, after, answered, pkt, nsent, seq >>

\* the step ends the request with the angles of datagram f as its result
AckedWith(f) ==
    /\ pc' # pc
    /\ answered' = [answered EXCEPT ![pc] = f]
    /\ pc = "before" => before' = Some(UnpackAngles3(ParsedTraffic[f].data))
    /\ pc = "set" =>
          /\ set_ret'.ok
          /\ set_ret'.ack_angles = Some(UnpackAngles3(ParsedTraffic[f].data))
    /\ pc = "after" => after' = Some(UnpackAngles3(ParsedTraffic[f].data))

\* C15 as claimed: while a request's window is open, a received datagram that
\* is checksum-invalid or a valid frame with another command id or without
\* the ack bit leaves the request polling, and a matching acknowledgement
\* received later in the window ends it as Acked with that frame's payload.
DiscardAndPollAsClaimed ==
    [][\A f \in Traffic :
          Recv({f}, ParsedTraffic) =>
              IF MatchingAck(f) THEN AckedWith(f) ELSE KeepsPolling]_vars

\* C15 amended: the same, a frame matching when it carries the request's
\* command id and at least the reply's 6 (set angles) or 12 (attitude)
\* payload bytes, and, for set_angles_with_ack only, the ack bit.
DiscardAndPoll ==
    [][\A f \in Traffic :
          Recv({f}, ParsedTraffic) =>
              IF MatchingReply(f) THEN AckedWith(f) ELSE KeepsPolling]_vars

\* the second request_attitude dropped a checksum-invalid datagram and then,
\* in the same window, returned the angles of the attitude acknowledgement
DiscardAndPollWitness ==
    /\ pc = "report"
    /\ raw = SetAckCorrupt
    /\ t < WindowTicks
    /\ answered.after = AttAck
    /\ after = Some(UnpackAngles3(ParsedTraffic[AttAck].data))

\* the sequence field of a datagram the session sent
SeqField(d) == UnpackU16(Slice(d, 5, 7))

\* datagrams sent so far against calls made so far: three calls an iteration
OnePerCall ==
    /\ pc = "before" => nsent % 3 = 1
    /\ pc = "set" => nsent % 3 = 2
    /\ pc \in {"after", "report", "ask", "closed"} => nsent % 3 = 0

\* a datagram goes out only as a call begins, and not with the sequence
\* number of the datagram before it
SentByNewCall ==
    /\ nsent' \in {nsent, nsent + 1}
    /\ nsent' = nsent => pkt' = pkt
    /\ nsent' = nsent + 1 =>
          /\ pc' \in {"before", "set", "after"}
          /\ pc' # pc
          /\ nsent >= 1 => SeqField(pkt') # SeqField(pkt)

\* C16: each call of request_attitude or set_angles_with_ack transmits
\* exactly one datagram on every path (acked, timed out, garbage received);
\* another datagram goes out only with the caller's next call, under a
\* different sequence number.
SingleAttempt == []OnePerCall /\ [][SentByNewCall]_vars

\* one iteration of three datagrams: the first call acked, the second timed
\* out, the third timed out after it had received garbage
SingleAttemptWitness ==
    /\ pc = "report"
    /\ nsent = 3
    /\ answered.before = AttAck
    /\ ~set_ret.ok
    /\ after = None
    /\ raw = GarbageShort

(***************************************************************************)
(* The session run through the whole range of the 16-bit counter: one      *)
(* request pair, and each request is either answered by the gimbal or      *)
(* times out.                                                              *)
(***************************************************************************)

SeqRequests == { << F(20000), F(-99900) >> }

\* the reply the outstanding request is waiting for
Reply == IF pc = "set" THEN { SetAck } ELSE { AttAck }

SeqCap == 65536 + MaxSends

SeqNext ==
    \/ AskAngles(SeqRequests, SeqCap)
    \/ Recv(Reply, ParsedTraffic)
    \/ RecvTimeout
    \/ Report

SpecSeq == InitChan /\ [][SeqNext]_vars

\* C10: the k-th datagram sent in a session (from 0) carries sequence
\* k mod 65536, whatever the earlier requests returned.
SequenceNumbering ==
    nsent >= 1 => UnpackU16(Slice(pkt, 5, 7)) = (nsent - 1) % 65536

\* the datagram after the one carrying 65535 carries 0, after an
\* acknowledged and a timed-out request
SequenceWrapWitness ==
    /\ nsent = 65537
    /\ UnpackU16(Slice(pkt, 5, 7)) = 0
    /\ pc = "set"

\* C1: decoding an encoded frame is valid and gives back the command id, the
\* payload, the sequence number and the ack-requested flag (ctrl bit 0); an
\* empty payload makes a 10-byte frame.
CodecRoundTrip ==
    (codec_pc = "decoded" /\ codec_flip = -1) =>
        /\ codec_out # None
        /\ codec_out.ok
        /\ codec_out.cmd_id = codec_args.cmd_id
        /\ codec_out.data = codec_args.data
        /\ codec_out.seq = codec_args.seq
        /\ (Bit(codec_out.ctrl, 0) = 1) = codec_args.need_ack
        /\ (codec_args.data = << >> => Len(codec_raw) = 10)

CodecRoundTripWitness ==
    /\ codec_pc = "decoded"
    /\ codec_flip = -1
    /\ codec_args = [cmd_id |-> 255, data |-> << >>, seq |-> 65535, need_ack |-> TRUE]
    /\ Len(codec_raw) = 10
    /\ codec_out.ok

\* C2: a frame produced by build_packet with any one bit flipped decodes to
\* the invalid result.
SingleBitFlipRejected ==
    (codec_pc = "decoded" /\ codec_flip >= 0) => codec_out = None

SingleBitFlipWitness ==
    /\ codec_pc = "decoded"
    /\ codec_flip = 8 * 8 + 3
    /\ Len(codec_args.data) = 2
    /\ codec_out = None


(***************************************************************************)
(* Properties of the virtual PTZ pipeline, checked under SpecPTZ.          *)
(***************************************************************************)

\* an iteration that got a frame and polled the joystick has just run
Polled == frame.ok /\ updates.ok

\* this frame's identity list and the active identity when the iteration began
FrameIds == ids_of(targets)

ActiveAtEntry == entry.val.active_target_id

\* zero-based position of the first occurrence of identity v in ids
FirstPosition(ids, v) ==
    (CHOOSE i \in 1..Len(ids) :
        ids[i] = v /\ \A j \in 1..Len(ids) : ids[j] = v => i <= j) - 1

\* C5: when target_delta is non-zero, the detection list is non-empty and the
\* active identity is at position i of this frame's identity list (the first
\* position holding it, length n), the active identity after the update is
\* the identity at position (i + target_delta) mod n; with [3,7,9]: +1 from 7
\* gives 9, +1 from 9 wraps to 3 and -1 from 3 wraps to 9.
TargetCycling ==
    (Polled /\ updates.target_delta # 0 /\ Len(targets) > 0
            /\ InIds(ActiveAtEntry, FrameIds))
    => /\ LET n == Len(FrameIds)
              i == FirstPosition(FrameIds, ActiveAtEntry.val)
          IN  active_target_id = Some(FrameIds[((i + updates.target_delta) % n) + 1])
       /\ FrameIds = << 3, 7, 9 >> =>
            /\ (ActiveAtEntry = Some(7) /\ updates.target_delta = 1)
                    => active_target_id = Some(9)
            /\ (ActiveAtEntry = Some(9) /\ updates.target_delta = 1)
                    => active_target_id = Some(3)
            /\ (ActiveAtEntry = Some(3) /\ updates.target_delta = -1)
                    => active_target_id = Some(9)

\* the wrap of C5 has happened: [3,7,9], active 9, target_delta +1, now 3
TargetCyclingWitness ==
    /\ Polled
    /\ FrameIds = << 3, 7, 9 >>
    /\ ActiveAtEntry = Some(9)
    /\ updates.target_delta = 1
    /\ active_target_id = Some(3)

\* C6 as claimed: whenever the active identity (one is held) is not among
\* this frame's identities and the detection list is non-empty, after the
\* cycle's selection the stored active identity is the first identity in
\* list order.
LossRecoveryAsClaimed ==
    (frame.ok /\ Len(targets) > 0 /\ ActiveAtEntry.ok
              /\ ~InIds(ActiveAtEntry, FrameIds))
    => active_target_id = Some(FrameIds[1])

\* C6 amended: the same, for a cycle whose manual-input event has a non-zero
\* target_delta; active 7 with identities [2,5] becomes 2.
LossRecovery ==
    (Polled /\ updates.target_delta # 0 /\ Len(targets) > 0
            /\ ~InIds(ActiveAtEntry, FrameIds))
    => active_target_id = Some(FrameIds[1])

LossRecoveryWitness ==
    /\ Polled
    /\ updates.target_delta # 0
    /\ FrameIds = << 2, 5 >>
    /\ ActiveAtEntry = Some(7)
    /\ active_target_id = Some(2)

\* C7: given zoom_min <= zoom_max, the stored zoom always satisfies
\* zoom_min <= zoom <= zoom_max, whatever events were polled; and an event
\* with zoom_delta = +1 (and no wide press) polled at zoom = zoom_max leaves
\* zoom at zoom_max.
ZoomClamp ==
    zoom_min <= zoom_max
    => /\ zoom_min <= zoom
       /\ zoom <= zoom_max
       /\ (Polled /\ entry.val.zoom = zoom_max /\ updates.zoom_delta = 1
                  /\ ~updates.wide)
            => zoom = zoom_max

\* zoom-in was polled at zoom_max, above zoom_min, and zoom stayed there
ZoomClampWitness ==
    /\ Polled
    /\ zoom_min < zoom_max
    /\ entry.val.zoom = zoom_max
    /\ updates.zoom_delta = 1
    /\ ~updates.wide
    /\ zoom = zoom_max


\* C8 as claimed: in any cycle whose manual-input event has wide = true the
\* rendered output frame is the unmodified input frame, whatever zoom_delta
\* and target_delta the same event carries.
WideOverrideAsClaimed ==
    (Polled /\ updates.wide) => output = Unmodified(frame.val)

\* the event moves the active identity along this frame's identity list
CyclesTarget ==
    /\ updates.target_delta # 0
    /\ Len(targets) > 0
    /\ InIds(ActiveAtEntry, FrameIds)

\* C8 amended: in any cycle whose manual-input event has wide = true and
\* zoom_delta = 0 the frame returned by the crop step is the unmodified input
\* frame, for every prior zoom, force_wide and active target, unless the
\* event's target_delta cycles the active target while zoom_min > 1.01.
WideOverride ==
    (Polled /\ updates.wide /\ updates.zoom_delta = 0
            /\ ~(CyclesTarget /\ zoom_min > 101))
    => output = Unmodified(frame.val)

\* wide was pressed, together with a target press that cycled the active
\* target, while the pipeline was zoomed in on a tracked target
WideOverrideWitness ==
    /\ Polled
    /\ updates.wide
    /\ updates.zoom_delta = 0
    /\ CyclesTarget
    /\ entry.val.zoom = 300
    /\ ~entry.val.force_wide
    /\ active_target.ok
    /\ output = Unmodified(frame.val)

\* the engine crops: a target is selected, force_wide is false, zoom > 1.01
Crops == frame.ok /\ active_target.ok /\ ~force_wide /\ zoom > 101

\* twice the bbox centre of the selected target
Centre2 ==
    << active_target.val.bbox[1] + active_target.val.bbox[3],
       active_target.val.bbox[2] + active_target.val.bbox[4] >>

Clamped(v, lo, hi) == Max(lo, Min(hi, v))

\* the integers within one half of n / d, d > 0
Nearest(n, d) ==
    { k \in { n \div d, (n \div d) + 1 } :
        2 * k * d >= 2 * n - d /\ 2 * k * d <= 2 * n + d }

\* the rectangle of a w x h frame with the given corner and size
CropOf(x1, y1, crop_w, crop_h) ==
    [kind |-> "resized", rect |-> << x1, y1, x1 + crop_w, y1 + crop_h >>,
     w |-> frame.val.w, h |-> frame.val.h]

\* C9 as claimed: whenever the engine crops, the crop rectangle is
\* (x1, y1, x1+crop_w, y1+crop_h) with crop_w = clamp(round(w/zoom),1,w),
\* crop_h = clamp(round(h/zoom),1,h), x1 = clamp(round(cx - crop_w/2), 0,
\* w-crop_w) and y1 = clamp(round(cy - crop_h/2), 0, h-crop_h), round being
\* any rounding to a nearest integer.
CropGeometryAsClaimed ==
    Crops =>
        LET w == frame.val.w
            h == frame.val.h
        IN  \E rw \in Nearest(100 * w, zoom), rh \in Nearest(100 * h, zoom) :
                LET crop_w == Clamped(rw, 1, w)
                    crop_h == Clamped(rh, 1, h)
                IN  \E rx \in Nearest(Centre2[1] - crop_w, 2),
                       ry \in Nearest(Centre2[2] - crop_h, 2) :
                        output = CropOf(Clamped(rx, 0, w - crop_w),
                                        Clamped(ry, 0, h - crop_h),
                                        crop_w, crop_h)

\* C9 amended: the same with every round replaced by truncation (Python's
\* int()): crop_w = clamp(trunc(w/zoom),1,w), crop_h = clamp(trunc(h/zoom),1,h),
\* x1 = clamp(trunc(cx - crop_w/2), 0, w-crop_w), y1 likewise.  Under the
\* clamp to 0 truncation toward zero and rounding down (\div) give the same
\* corner.  For 640x480, bbox (270,190,370,290) and zoom 2.0 the rectangle is
\* (160,120,480,360).
CropGeometry ==
    Crops =>
        LET w == frame.val.w
            h == frame.val.h
            crop_w == Clamped((100 * w) \div zoom, 1, w)
            crop_h == Clamped((100 * h) \div zoom, 1, h)
            x1 == Clamped((Centre2[1] - crop_w) \div 2, 0, w - crop_w)
            y1 == Clamped((Centre2[2] - crop_h) \div 2, 0, h - crop_h)
        IN  /\ output = CropOf(x1, y1, crop_w, crop_h)
            /\ (w = 640 /\ h = 480 /\ zoom = 200
                    /\ active_target.val.bbox = << 270, 190, 370, 290 >>)
                => output.rect = << 160, 120, 480, 360 >>

\* a crop whose width is not a whole number before truncation: 640 / 1.5
CropGeometryWitness ==
    /\ Crops
    /\ frame.val = [w |-> 640, h |-> 480]
    /\ zoom = 150
    /\ output.kind = "resized"
    /\ output.rect[3] - output.rect[1] = 426

\* the cycle's manual input carries no target delta (or there is no joystick)
NoTargetDelta == frame.ok /\ (updates.ok => updates.target_delta = 0)

\* the positions of this frame's detection list holding the largest area
LargestPositions ==
    { i \in 1..Len(targets) :
        \A j \in 1..Len(targets) : Area(targets[j]) <= Area(targets[i]) }

Decoded == codec_pc \in {"decoded", "parsed"}

\* the length field of codec_raw and the bytes it carries between the
\* 8-byte header and the 2-byte checksum
DeclaredLength == UnpackU16(SubSeq(codec_raw, 4, 5))
CarriedLength == Len(codec_raw) - 10

\* codec_raw is one of the buffers parse_packet has to refuse
Refused ==
    \/ Len(codec_raw) < 10
    \/ SubSeq(codec_raw, 1, 2) # STX
    \/ UnpackU16(SubSeq(codec_raw, Len(codec_raw) - 1, Len(codec_raw)))
         # crc16_xmodem(SubSeq(codec_raw, 1, Len(codec_raw) - 2), 0)

\* the payload returned is the declared number of bytes right after the
\* header, none of them one of the two checksum bytes
PayloadAsDeclared ==
    /\ Len(codec_out.data) = DeclaredLength
    /\ 8 + Len(codec_out.data) <= Len(codec_raw) - 2
    /\ codec_out.data = SubSeq(codec_raw, 9, 8 + Len(codec_out.data))

\* C13 as claimed: parse_packet returns the invalid result when the buffer
\* is shorter than 10 bytes, does not start with the sync marker or does not
\* end with the CRC of the preceding bytes; and whenever it succeeds the
\* payload has exactly as many bytes as the length field declares and holds
\* no checksum byte.
DecodeResultAsClaimed ==
    Decoded =>
        /\ Refused => codec_out = None
        /\ codec_out # None => PayloadAsDeclared

\* C13 amended: the same, the payload being as declared whenever the frame
\* declares no more bytes than it carries between header and checksum.
DecodeResult ==
    Decoded =>
        /\ Refused => codec_out = None
        /\ (codec_out # None /\ DeclaredLength <= CarriedLength) => PayloadAsDeclared

\* a frame carrying two bytes and declaring one was decoded to that one byte
DecodeResultWitness ==
    /\ codec_pc = "parsed"
    /\ codec_out # None
    /\ CarriedLength = 2
    /\ DeclaredLength = 1
    /\ Len(codec_out.data) = 1

\* C17: when target_delta is non-zero, the detection list is non-empty and
\* the active identity, the initial None included, is not among this frame's
\* identities, the active identity becomes the first identity of the list
\* and the first detection is the one selected, whatever the sign and the
\* magnitude of target_delta: the list is not advanced through in that cycle.
SnapOnCycle ==
    (Polled /\ updates.target_delta # 0 /\ Len(targets) > 0
            /\ ~InIds(ActiveAtEntry, FrameIds))
    => /\ active_target_id = Some(FrameIds[1])
       /\ active_target = Some(targets[1])

\* with no active identity yet, two presses to the left over [3,7,9] made 3
\* the active identity
SnapOnCycleWitness ==
    /\ Polled
    /\ FrameIds = << 3, 7, 9 >>
    /\ ActiveAtEntry = None
    /\ updates.target_delta = -2
    /\ active_target_id = Some(3)

\* the cycle's manual event asks for a zoom step or for the wide view
ZoomInput == Polled /\ (updates.zoom_delta # 0 \/ updates.wide)

\* C18 as claimed: zoom and force_wide change only in a cycle whose manual
\* event has zoom_delta # 0 or wide = true; a cycle whose event has
\* zoom_delta = 0 and wide = false leaves both as they were, whatever its
\* target_delta and its detection list.
ZoomStateFrameAsClaimed ==
    (entry.ok /\ ~ZoomInput)
    => /\ zoom = entry.val.zoom
       /\ force_wide = entry.val.force_wide

\* C18 amended: zoom changes only in a cycle whose manual event has
\* zoom_delta # 0 or wide = true, and force_wide only in such a cycle or in
\* one whose target_delta moves the active identity along the list, which
\* clears it; any other cycle leaves both as they were.
ZoomStateFrame ==
    (entry.ok /\ ~ZoomInput)
    => /\ zoom = entry.val.zoom
       /\ IF Polled /\ CyclesTarget
          THEN ~force_wide
          ELSE force_wide = entry.val.force_wide

\* in the wide view, a target press that found the active identity gone was
\* polled with no zoom or wide press, and the wide view stayed
ZoomStateFrameWitness ==
    /\ Polled
    /\ updates.zoom_delta = 0
    /\ ~updates.wide
    /\ updates.target_delta # 0
    /\ Len(targets) > 0
    /\ ~CyclesTarget
    /\ entry.val.force_wide
    /\ force_wide

\* C19: the frame the crop step returns is the input frame, uncropped,
\* whenever force_wide is true, or no detection is selected, or zoom <= 1.01;
\* in every other case it is a crop of the frame resampled to the frame's own
\* width and height.
PassThrough ==
    frame.ok =>
        IF force_wide \/ ~active_target.ok \/ zoom <= 101
        THEN output = Unmodified(frame.val)
        ELSE /\ output.kind = "resized"
             /\ output.w = frame.val.w
             /\ output.h = frame.val.h

\* a selected detection outside the wide view at zoom 1.01 exactly: the frame
\* went out uncropped
PassThroughWitness ==
    /\ frame.ok
    /\ active_target.ok
    /\ ~force_wide
    /\ zoom = 101
    /\ output = Unmodified(frame.val)

\* C20: for every frame size w, h >= 1, every zoom >= 1 and every bbox
\* centre, centres outside the frame included, the crop rectangle computed
\* by _crop_and_zoom has 0 <= x1 < x2 <= w and 0 <= y1 < y2 <= h: the crop
\* is never empty and never reads outside the frame.
BoundedCrop ==
    (Crops /\ frame.val.w >= 1 /\ frame.val.h >= 1 /\ zoom >= 100)
    => /\ output.kind = "resized"
       /\ 0 <= output.rect[1]
       /\ output.rect[1] < output.rect[3]
       /\ output.rect[3] <= frame.val.w
       /\ 0 <= output.rect[2]
       /\ output.rect[2] < output.rect[4]
       /\ output.rect[4] <= frame.val.h

\* the selected box is centred to the right of a 640x480 frame, and the crop
\* ends at the frame's right edge
BoundedCropWitness ==
    /\ Crops
    /\ frame.val = [w |-> 640, h |-> 480]
    /\ Centre2[1] > 2 * frame.val.w
    /\ output.kind = "resized"
    /\ output.rect[3] = 640

\* the sink has been started: start_stream has set the streamer's pipeline
Started == pipeline # None

\* a frame is at the sink only once the sink has been started, and the sink
\* has been started once a cycle has acquired a frame
StartedForPush ==
    /\ pushed # None => Started
    /\ frame.ok => (Started /\ pushed = output)

\* the sink is started when a cycle first acquires a frame, and a sink found
\* started is not started again
StartedOnce ==
    /\ starts = (IF Started THEN 1 ELSE 0)
    /\ (entry.ok /\ frame.ok /\ entry.val.pipeline = None)
       => starts = entry.val.starts + 1
    /\ (entry.ok /\ entry.val.pipeline # None) => starts = entry.val.starts

\* a cycle that acquires no frame detects, selects, zooms, starts and pushes
\* nothing
IdleCycle ==
    (entry.ok /\ ~frame.ok)
    => /\ zoom = entry.val.zoom
       /\ force_wide = entry.val.force_wide
       /\ active_target_id = entry.val.active_target_id
       /\ pipeline = entry.val.pipeline
       /\ starts = entry.val.starts
       /\ targets = << >>
       /\ active_target = None
       /\ pushed = None

\* C21: over any run of the loop no frame is pushed before the sink has been
\* started, the sink is started in the first cycle that acquires a frame and
\* at most once, and a cycle in which acquisition yields no frame performs no
\* detection, no selection or zoom update, no start and no push.
LazySinkStart == StartedForPush /\ StartedOnce /\ IdleCycle

\* a cycle found the sink started by an earlier one and pushed its frame
\* without starting the sink again
LazySinkStartWitness ==
    /\ entry.ok
    /\ entry.val.pipeline # None
    /\ frame.ok
    /\ pushed = output
    /\ starts = 1

\* the deltas poll() may return by its docstring: -1/0/1
UnitDelta(d) == d \in {-1, 0, 1}

\* the value poll() returns when there is no hardware
ZeroInput ==
    [ok |-> TRUE, target_delta |-> 0, zoom_delta |-> 0, wide |-> FALSE]

\* C22: every value returned by JoystickController.poll has target_delta in
\* {-1, 0, 1} and zoom_delta in {-1, 0, 1}, whatever events one poll gathers,
\* and with no hardware present it is target_delta = 0, zoom_delta = 0,
\* wide = false.
ManualInputShape ==
    Polled => /\ UnitDelta(updates.target_delta)
              /\ UnitDelta(updates.zoom_delta)
              /\ ~enabled => updates = ZeroInput

\* the stored identity is the one the cycle found
IdentityKept == active_target_id = ActiveAtEntry

\* a detection of this frame carrying the stored identity is the one selected
SelectedByIdentity ==
    \E i \in 1..Len(targets) :
        /\ FrameIds[i] = active_target_id.val
        /\ active_target = Some(targets[i])

\* C23: resolving the active target never changes the stored active identity,
\* also when it falls back to the largest-area detection: in every cycle with
\* target_delta = 0 the stored identity stays what it was, and whenever that
\* identity is among the frame's identities, as when it reappears after frames
\* without it, the detection carrying it is selected.
StoredIdentityKept ==
    NoTargetDelta
    => /\ IdentityKept
       /\ InIds(active_target_id, FrameIds) => SelectedByIdentity

\* the stored identity is absent from the frame, the largest detection is
\* selected in its place, and the stored identity is still the absent one
StoredIdentityKeptWitness ==
    /\ NoTargetDelta
    /\ ActiveAtEntry.ok
    /\ ~InIds(ActiveAtEntry, FrameIds)
    /\ active_target.ok
    /\ active_target.val.id # ActiveAtEntry
    /\ IdentityKept

(***************************************************************************)
(* Properties of the PC node's frame queue, checked under SpecQueue.       *)
(***************************************************************************)

\* the frames that left the queue or are still on it, oldest first
Taken ==
    IF main_frame = 0 THEN displayed ELSE Append(displayed, main_frame)

\* the queue never holds more than maxsize frames
QueueBounded == Len(frame_queue) <= maxsize

\* neither put() in the callback nor get() in main() ever has to wait
NeverBlocks == recv_pc # "blocked" /\ main_pc # "blocked"

\* a frame is dropped exactly when full() finds the queue full
DroppedWhenFull ==
    /\ recv_pc = "put" => seen < maxsize
    /\ (arrived > 0 /\ recv_pc = "idle" /\ seen = maxsize) => arrived \in dropped
    /\ \A f \in dropped : \A i \in 1..Len(enqueued) : enqueued[i] # f
    /\ Cardinality(dropped) + Len(enqueued)
            + (IF recv_pc = "idle" THEN 0 ELSE 1) = arrived

\* what has been shown is the beginning of what was put, in the same order
\* (a frame main() held when it was interrupted is never shown)
DisplayedInOrder ==
    /\ Len(displayed) <= Len(enqueued)
    /\ \A i \in 1..Len(displayed) : displayed[i] = enqueued[i]
    /\ main_pc \in {"loop", "get", "show"} => Taken \o frame_queue = enqueued

\* C24: with one receiver thread calling on_frame_received and the main
\* thread consuming, under every interleaving the frame queue never holds
\* more than 10 frames, on_frame_received never blocks (a frame arriving
\* while the queue is full is dropped), and frames are displayed in the order
\* they were enqueued.
ReceiveQueue ==
    QueueBounded /\ NeverBlocks /\ DroppedWhenFull /\ DisplayedInOrder

\* the queue filled up, a frame arriving then was dropped, main() showed the
\* oldest frame and the frame that arrived next took the free slot
ReceiveQueueWitness ==
    /\ Len(frame_queue) = maxsize
    /\ dropped = {maxsize + 1}
    /\ displayed = << 1 >>
    /\ enqueued[Len(enqueued)] = maxsize + 2

====
